---- MODULE Spec2Model ----
(***************************************************************************)
(* Model of obs_sneeze_censor.py (CensorBot): the capture callback, the    *)
(* recognition thread, the censorship trigger/cleanup sequence against     *)
(* the OBS backend, and the process lifecycle.                             *)
(***************************************************************************)
EXTENDS Integers, Sequences, FiniteSets, TLC

\* ------------------------------------------------------------------ bounds
\* Number of audio blocks the capture callback delivers in a run.
MaxFrames == 3

\* ------------------------------------------------------------- characters
\* str.lower() on one character (the alphabet used by the sample texts).
LowerChar(c) ==
    CASE c = "H" -> "h"
      [] c = "E" -> "e"
      [] c = "L" -> "l"
      [] c = "D" -> "d"
      [] c = "A" -> "a"
      [] c = "M" -> "m"
      [] c = "N" -> "n"
      [] c = "O" -> "o"
      [] c = "V" -> "v"
      [] c = "P" -> "p"
      [] OTHER -> c

\* str.lower() on a string, kept as a tuple of characters.
Lower(s) == [i \in 1..Len(s) |-> LowerChar(s[i])]

\* Characters str.split() treats as separators.
IsSpace(c) == c \in {" ", "\t", "\n"}

\* str.split() with no argument: the maximal runs of non-whitespace
\* characters, in order; empty runs are dropped.
RECURSIVE SplitFrom(_, _, _)
SplitFrom(s, i, cur) ==
    IF i > Len(s)
    THEN IF cur = <<>> THEN <<>> ELSE <<cur>>
    ELSE IF IsSpace(s[i])
         THEN IF cur = <<>>
              THEN SplitFrom(s, i + 1, <<>>)
              ELSE <<cur>> \o SplitFrom(s, i + 1, <<>>)
         ELSE SplitFrom(s, i + 1, Append(cur, s[i]))

Split(s) == SplitFrom(s, 1, <<>>)

Range(s) == {s[i] : i \in 1..Len(s)}

\* --------------------------------------------------------------- word set
DEFAULT_SWEAR_WORDS ==
    { <<"f","u","c","k">>, <<"s","h","i","t">>, <<"b","i","t","c","h">>,
      <<"a","s","s","h","o","l","e">>, <<"b","a","s","t","a","r","d">>,
      <<"d","a","m","n">>, <<"c","r","a","p">>, <<"d","i","c","k">>,
      <<"p","i","s","s">>, <<"b","o","l","l","o","c","k","s">>,
      <<"b","u","g","g","e","r">>, <<"b","l","o","o","d","y">>,
      <<"h","e","l","l">> }

\* str.strip(): leading and trailing whitespace removed.
RECURSIVE Strip(_)
Strip(w) ==
    IF w = <<>> THEN w
    ELSE IF IsSpace(w[1]) THEN Strip(Tail(w))
    ELSE IF IsSpace(w[Len(w)]) THEN Strip(SubSeq(w, 1, Len(w) - 1))
    ELSE w

\* _load_swear_words: the built-in words, and of each line of the custom
\* file that is not blank, its stripped lowercase form (no file: no lines).
LoadSwearWords(lines) ==
    DEFAULT_SWEAR_WORDS
    \cup {Lower(Strip(w)) : w \in {l \in lines : Strip(l) # <<>>}}

\* ------------------------------------------------- recognizer outcomes
\* Texts the recognizer may report in the "text" field of a final result.
Texts ==
    { <<>>,
      <<"w","e","l","l"," ","d","a","m","n"," ","i","t">>,
      <<"s","h","e","l","l","f","i","s","h">>,
      <<"H","E","L","L"," ","n","o">> }

\* What AcceptWaveform/Result do with one frame: no utterance boundary,
\* a final result carrying a text, or an exception.
Outcomes ==
    {[kind |-> "partial", text |-> <<>>], [kind |-> "error", text |-> <<>>]}
    \cup {[kind |-> "final", text |-> t] : t \in Texts}

\* ------------------------------------------------------------ asset folder
\* Files that may be in the cat folder, with their suffixes.
Files == {"cat1.mp4", "cat2.MOV", "notes.txt"}

Suffix(f) ==
    CASE f = "cat1.mp4" -> <<".","m","p","4">>
      [] f = "cat2.MOV" -> <<".","M","O","V">>
      [] OTHER -> <<".","t","x","t">>

VideoSuffixes ==
    { <<".","m","p","4">>, <<".","m","o","v">>,
      <<".","m","k","v">>, <<".","w","e","b","m">> }

\* The list _pick_cat_video builds from the folder's content.
Vids(dir) == {f \in dir : Lower(Suffix(f)) \in VideoSuffixes}

\* ------------------------------------------------------------------ state
VARIABLES
    swear_words,     \* self.swear_words, loaded once by __init__
    result,          \* outcome of AcceptWaveform/Result for the last frame
    bad,             \* local bad of _recognition_loop: the matched tokens
    held,            \* history: frames put on the queue during a hold
    origins,         \* history: per trigger, the frame whose text caused it
    mainpc,          \* main thread: "init", "ready", "listening", "exited"
    inputs,          \* input names OBS reports (get_input_list)
    catInScene,      \* whether the cat source is an item of the current scene
    folder,          \* files currently in cfg.cat_folder
    audio_queue,     \* queue.Queue of frames (frame ids, in put order)
    captured,        \* number of frames the callback has put
    accepted,        \* frames passed to AcceptWaveform, in order
    pc,              \* recognition thread's position
    data,            \* frame held by the recognition thread (0: none)
    video_path,      \* local video_path of _trigger_censor ("none": unset)
    silence,         \* threading.Event self.silence
    stop_event,      \* threading.Event self.stop_event
    exc,             \* exception propagating through the try block
    micMuted,        \* OBS: mute state of the mic input
    overlayVisible,  \* OBS: enabled state of the cat scene item
    catFile,         \* OBS: local_file of the cat media source
    trace,           \* asset selections and backend calls made, in order
    mark,            \* Len(trace) when the current/last trigger set silence
    sessions         \* number of times silence was set

vars == <<mainpc, inputs, catInScene, folder, audio_queue, captured, accepted,
          pc, data, video_path, silence, stop_event, exc, micMuted, overlayVisible,
          catFile, trace, mark, sessions, swear_words, result, bad, held,
          origins>>

\* Words, locals of the recognition loop and history, as a group.
loc == <<swear_words, result, bad, held, origins>>

\* Variant of Detect: the text is not lowercased before it is split.
DetectNoLower(text, words) == Range(Split(text)) \cap words

\* text = result.get("text", "").lower(); set(text.split()) & words
Detect(text, words) == Range(Split(Lower(text))) \cap words

\* The match set of the recognition loop for a reported text.
Bad(text) == Detect(text, swear_words)

NoResult == [kind |-> "none", text |-> <<>>]

env == <<inputs, catInScene>>
obs == <<micMuted, overlayVisible, catFile>>

MicName == "mic"
CatName == "cat"

Call(fn, arg, ok) == [fn |-> fn, arg |-> arg, ok |-> ok]

\* The process is alive and the recognition thread is at position p.
At(p) == mainpc = "listening" /\ pc = p

Init ==
    /\ mainpc = "init"
    /\ inputs \in SUBSET {MicName, CatName}
    /\ catInScene \in BOOLEAN
    /\ folder \in SUBSET Files
    /\ audio_queue = <<>>
    /\ captured = 0
    /\ accepted = <<>>
    /\ pc = "unstarted"
    /\ data = 0
    /\ video_path = "none"
    /\ silence = FALSE
    /\ stop_event = FALSE
    /\ exc = "none"
    /\ micMuted = FALSE
    /\ overlayVisible = FALSE
    /\ catFile = "none"
    /\ trace = <<>>
    /\ mark = 0
    /\ sessions = 0
    /\ swear_words = LoadSwearWords({})
    /\ result = NoResult
    /\ bad = {}
    /\ held = {}
    /\ origins = <<>>

\* ---------------------------------------------------------------- startup
\* Variant of Construct: the scene item lookup is not checked (the
\* exception of get_scene_item_id is swallowed).
ConstructNoSceneCheck ==
    /\ mainpc = "init"
    /\ mainpc' = IF MicName \in inputs /\ CatName \in inputs
                 THEN "ready" ELSE "exited"
    /\ UNCHANGED <<env, folder, audio_queue, captured, accepted, pc, data,
                   video_path, silence, stop_event, exc, obs, trace, mark,
                   sessions, loc>>

\* CensorBot.__init__ / _prepare_scene_items: SystemExit when a source is
\* missing from the input list or the cat source is not in the scene.
Construct ==
    /\ mainpc = "init"
    /\ mainpc' = IF MicName \in inputs /\ CatName \in inputs /\ catInScene
                 THEN "ready" ELSE "exited"
    /\ UNCHANGED <<env, folder, audio_queue, captured, accepted, pc, data, video_path,
                   silence, stop_event, exc, obs, trace, mark, sessions, loc>>

\* CensorBot.start: creates stop_event, starts the daemon recognition
\* thread and opens the input stream.
Start ==
    /\ mainpc = "ready"
    /\ mainpc' = "listening"
    /\ stop_event' = FALSE
    /\ pc' = "loop"
    /\ UNCHANGED <<env, folder, audio_queue, captured, accepted, data, video_path,
                   silence, exc, obs, trace, mark, sessions, loc>>

\* Variant of Interrupt: the KeyboardInterrupt handler sets stop_event.
InterruptSetsStop ==
    /\ mainpc = "listening"
    /\ mainpc' = "exited"
    /\ stop_event' = TRUE
    /\ UNCHANGED <<env, folder, audio_queue, captured, accepted, pc, data,
                   video_path, silence, exc, obs, trace, mark, sessions, loc>>

\* KeyboardInterrupt in the wait loop of start(): the stream closes, start
\* returns and the process exits, ending the daemon thread where it is.
Interrupt ==
    /\ mainpc = "listening"
    /\ mainpc' = "exited"
    /\ UNCHANGED <<env, folder, audio_queue, captured, accepted, pc, data, video_path,
                   silence, stop_event, exc, obs, trace, mark, sessions, loc>>

\* ---------------------------------------------------------------- capture
\* _audio_callback: put on the unbounded queue; never blocks.
AudioCallback ==
    /\ mainpc = "listening"
    /\ captured < MaxFrames
    /\ captured' = captured + 1
    /\ audio_queue' = Append(audio_queue, captured + 1)
    /\ held' = IF pc = "hold" THEN held \cup {captured + 1} ELSE held
    /\ UNCHANGED <<mainpc, env, folder, accepted, pc, data, video_path, silence,
                   stop_event, exc, obs, trace, mark, sessions, swear_words,
                   result, bad, origins>>

\* The content of the cat folder is changed from outside the program.
FolderChange ==
    /\ mainpc = "listening"
    /\ \E d \in SUBSET Files : d # folder /\ folder' = d
    /\ UNCHANGED <<mainpc, env, audio_queue, captured, accepted, pc, data, video_path,
                   silence, stop_event, exc, obs, trace, mark, sessions, loc>>

\* ------------------------------------------------------- recognition loop
\* while not self.stop_event.is_set()
LoopCheck ==
    /\ At("loop")
    /\ pc' = IF stop_event THEN "done" ELSE "get"
    /\ UNCHANGED <<mainpc, env, folder, audio_queue, captured, accepted, data, video_path,
                   silence, stop_event, exc, obs, trace, mark, sessions, loc>>

\* Variant of Get: the newest frame of the queue is taken (a LIFO queue).
GetLifo ==
    /\ At("get")
    /\ IF audio_queue = <<>>
       THEN /\ pc' = "loop"
            /\ UNCHANGED <<audio_queue, data>>
       ELSE /\ data' = audio_queue[Len(audio_queue)]
            /\ audio_queue' = SubSeq(audio_queue, 1, Len(audio_queue) - 1)
            /\ pc' = "accept"
    /\ UNCHANGED <<mainpc, env, folder, captured, accepted, video_path,
                   silence, stop_event, exc, obs, trace, mark, sessions, loc>>

\* audio_queue.get(timeout=0.2): the head of the queue, or queue.Empty and
\* continue.
Get ==
    /\ At("get")
    /\ IF audio_queue = <<>>
       THEN /\ pc' = "loop"
            /\ UNCHANGED <<audio_queue, data>>
       ELSE /\ data' = Head(audio_queue)
            /\ audio_queue' = Tail(audio_queue)
            /\ pc' = "accept"
    /\ UNCHANGED <<mainpc, env, folder, captured, accepted, video_path,
                   silence, stop_event, exc, obs, trace, mark, sessions, loc>>

\* AcceptWaveform(data) and, at an utterance boundary, Result(). An
\* exception is not caught: the thread ends.
Recognize ==
    /\ At("accept")
    /\ accepted' = Append(accepted, data)
    /\ data' = 0
    /\ \E o \in Outcomes :
         /\ result' = o
         /\ pc' = CASE o.kind = "error" -> "dead"
                   [] o.kind = "partial" -> "loop"
                   [] OTHER -> "match"
    /\ UNCHANGED <<mainpc, env, folder, audio_queue, captured, video_path,
                   silence, stop_event, exc, obs, trace, mark, sessions,
                   swear_words, bad, held, origins>>

\* Variant of Match: the trigger is called for every non-empty text (the
\* test of bad is left out).
MatchAnyText ==
    /\ At("match")
    /\ bad' = Bad(result.text)
    /\ pc' = IF Lower(result.text) # <<>> THEN "trigger" ELSE "loop"
    /\ UNCHANGED <<mainpc, env, folder, audio_queue, captured, accepted, data,
                   video_path, silence, stop_event, exc, obs, trace, mark,
                   sessions, swear_words, result, held, origins>>

\* text = result.get("text", "").lower(); if text: bad = set(text.split())
\* & self.swear_words; if bad: self._trigger_censor(). (For an empty text
\* the match set, which the code does not compute, is the empty set.)
Match ==
    /\ At("match")
    /\ bad' = Bad(result.text)
    /\ pc' = IF Lower(result.text) # <<>> /\ Bad(result.text) # {}
             THEN "trigger" ELSE "loop"
    /\ UNCHANGED <<mainpc, env, folder, audio_queue, captured, accepted, data,
                   video_path, silence, stop_event, exc, obs, trace, mark,
                   sessions, swear_words, result, held, origins>>

\* ---------------------------------------------------------- _trigger_censor
\* if self.silence.is_set(): return;  self.silence.set()
TriggerEnter ==
    /\ At("trigger")
    /\ IF silence
       THEN /\ pc' = "loop"
            /\ UNCHANGED <<silence, mark, sessions, exc, origins>>
       ELSE /\ silence' = TRUE
            /\ mark' = Len(trace)
            /\ sessions' = sessions + 1
            /\ origins' = Append(origins, accepted[Len(accepted)])
            /\ exc' = "none"
            /\ pc' = "mute"
    /\ UNCHANGED <<mainpc, env, folder, audio_queue, captured, accepted, data, video_path,
                   stop_event, obs, trace, swear_words, result, bad, held>>

\* A backend request either succeeds and takes effect, or raises; a request
\* that raised may or may not have been applied by OBS.
Applied(ok) == IF ok THEN {TRUE} ELSE BOOLEAN

\* 1. self.ws.set_input_mute(mic, True)
Mute ==
    /\ At("mute")
    /\ \E ok \in BOOLEAN : \E ap \in Applied(ok) :
         /\ trace' = Append(trace, Call("set_input_mute", "true", ok))
         /\ micMuted' = IF ap THEN TRUE ELSE micMuted
         /\ exc' = IF ok THEN exc ELSE "Exception"
         /\ pc' = IF ok THEN "pick" ELSE "hide"
    /\ UNCHANGED <<mainpc, env, folder, audio_queue, captured, accepted, data, video_path,
                   silence, stop_event, overlayVisible, catFile, mark, sessions, loc>>

\* Variant of Pick: the selected file is never loaded into the source (the
\* call of _set_cat_source_file is left out).
PickSkipsSetFile ==
    /\ At("pick")
    /\ IF Vids(folder) = {}
       THEN /\ trace' = Append(trace, Call("pick", "none", FALSE))
            /\ exc' = "SystemExit"
            /\ pc' = "hide"
            /\ UNCHANGED video_path
       ELSE \E v \in Vids(folder) :
            /\ trace' = Append(trace, Call("pick", v, TRUE))
            /\ video_path' = v
            /\ pc' = "show"
            /\ UNCHANGED exc
    /\ UNCHANGED <<mainpc, env, folder, audio_queue, captured, accepted, data,
                   silence, stop_event, obs, mark, sessions, loc>>

\* Variant of Pick: the SystemExit of an empty folder leaves _trigger_censor
\* at once (asset selection placed outside the try block).
PickNoFinally ==
    /\ At("pick")
    /\ IF Vids(folder) = {}
       THEN /\ trace' = Append(trace, Call("pick", "none", FALSE))
            /\ exc' = "SystemExit"
            /\ pc' = "dead"
            /\ UNCHANGED video_path
       ELSE \E v \in Vids(folder) :
            /\ trace' = Append(trace, Call("pick", v, TRUE))
            /\ video_path' = v
            /\ pc' = "setfile"
            /\ UNCHANGED exc
    /\ UNCHANGED <<mainpc, env, folder, audio_queue, captured, accepted, data,
                   silence, stop_event, obs, mark, sessions, loc>>

\* 2. video_path = self._pick_cat_video(): SystemExit on an empty list,
\* else any element of it.
Pick ==
    /\ At("pick")
    /\ IF Vids(folder) = {}
       THEN /\ trace' = Append(trace, Call("pick", "none", FALSE))
            /\ exc' = "SystemExit"
            /\ pc' = "hide"
            /\ UNCHANGED video_path
       ELSE \E v \in Vids(folder) :
            /\ trace' = Append(trace, Call("pick", v, TRUE))
            /\ video_path' = v
            /\ pc' = "setfile"
            /\ UNCHANGED exc
    /\ UNCHANGED <<mainpc, env, folder, audio_queue, captured, accepted, data,
                   silence, stop_event, obs, mark, sessions, loc>>

\* Variant of SetFile: an exception of set_input_settings leaves
\* _trigger_censor without the finally block (try without finally).
SetFileNoFinally ==
    /\ At("setfile")
    /\ \E ok \in BOOLEAN : \E ap \in Applied(ok) :
         /\ trace' = Append(trace, Call("set_input_settings", video_path, ok))
         /\ catFile' = IF ap THEN video_path ELSE catFile
         /\ exc' = IF ok THEN exc ELSE "Exception"
         /\ pc' = IF ok THEN "show" ELSE "dead"
    /\ UNCHANGED <<mainpc, env, folder, audio_queue, captured, accepted, data,
                   video_path, silence, stop_event, micMuted, overlayVisible,
                   mark, sessions, loc>>

\* self._set_cat_source_file(video_path)
SetFile ==
    /\ At("setfile")
    /\ \E ok \in BOOLEAN : \E ap \in Applied(ok) :
         /\ trace' = Append(trace, Call("set_input_settings", video_path, ok))
         /\ catFile' = IF ap THEN video_path ELSE catFile
         /\ exc' = IF ok THEN exc ELSE "Exception"
         /\ pc' = IF ok THEN "show" ELSE "hide"
    /\ UNCHANGED <<mainpc, env, folder, audio_queue, captured, accepted, data,
                   video_path, silence, stop_event, micMuted, overlayVisible,
                   mark, sessions, loc>>

\* Variant of Show: an exception of the show call leaves _trigger_censor
\* without the finally block.
ShowNoFinally ==
    /\ At("show")
    /\ \E ok \in BOOLEAN : \E ap \in Applied(ok) :
         /\ trace' = Append(trace, Call("set_scene_item_enabled", "true", ok))
         /\ overlayVisible' = IF ap THEN TRUE ELSE overlayVisible
         /\ exc' = IF ok THEN exc ELSE "Exception"
         /\ pc' = IF ok THEN "hold" ELSE "dead"
    /\ UNCHANGED <<mainpc, env, folder, audio_queue, captured, accepted, data,
                   video_path, silence, stop_event, micMuted, catFile, mark,
                   sessions, loc>>

\* 3. self.ws.set_scene_item_enabled(scene, item, True)
Show ==
    /\ At("show")
    /\ \E ok \in BOOLEAN : \E ap \in Applied(ok) :
         /\ trace' = Append(trace, Call("set_scene_item_enabled", "true", ok))
         /\ overlayVisible' = IF ap THEN TRUE ELSE overlayVisible
         /\ exc' = IF ok THEN exc ELSE "Exception"
         /\ pc' = IF ok THEN "hold" ELSE "hide"
    /\ UNCHANGED <<mainpc, env, folder, audio_queue, captured, accepted, data, video_path,
                   silence, stop_event, micMuted, catFile, mark, sessions, loc>>

\* time.sleep(cat_visible_seconds), then the finally block is entered.
Hold ==
    /\ At("hold")
    /\ pc' = "hide"
    /\ UNCHANGED <<mainpc, env, folder, audio_queue, captured, accepted, data, video_path,
                   silence, stop_event, exc, obs, trace, mark, sessions, loc>>

\* Variant of Hide: an exception of the hide call is swallowed and the
\* finally block goes on to unmute.
HideBestEffort ==
    /\ At("hide")
    /\ \E ok \in BOOLEAN : \E ap \in Applied(ok) :
         /\ trace' = Append(trace, Call("set_scene_item_enabled", "false", ok))
         /\ overlayVisible' = IF ap THEN FALSE ELSE overlayVisible
         /\ pc' = "unmute"
    /\ UNCHANGED <<mainpc, env, folder, audio_queue, captured, accepted, data,
                   video_path, silence, stop_event, exc, micMuted, catFile,
                   mark, sessions, loc>>

\* finally: self.ws.set_scene_item_enabled(scene, item, False). If it raises,
\* the rest of the finally block is skipped and the exception leaves
\* _trigger_censor and the recognition loop.
Hide ==
    /\ At("hide")
    /\ \E ok \in BOOLEAN : \E ap \in Applied(ok) :
         /\ trace' = Append(trace, Call("set_scene_item_enabled", "false", ok))
         /\ overlayVisible' = IF ap THEN FALSE ELSE overlayVisible
         /\ exc' = IF ok THEN exc ELSE "Exception"
         /\ pc' = IF ok THEN "unmute" ELSE "dead"
    /\ UNCHANGED <<mainpc, env, folder, audio_queue, captured, accepted, data, video_path,
                   silence, stop_event, micMuted, catFile, mark, sessions, loc>>

\* Variant of Unmute: the unmute call is left out of the finally block.
UnmuteSkipped ==
    /\ At("unmute")
    /\ pc' = "clear"
    /\ UNCHANGED <<mainpc, env, folder, audio_queue, captured, accepted, data,
                   video_path, silence, stop_event, exc, obs, trace, mark,
                   sessions, loc>>

\* finally: self.ws.set_input_mute(mic, False)
Unmute ==
    /\ At("unmute")
    /\ \E ok \in BOOLEAN : \E ap \in Applied(ok) :
         /\ trace' = Append(trace, Call("set_input_mute", "false", ok))
         /\ micMuted' = IF ap THEN FALSE ELSE micMuted
         /\ exc' = IF ok THEN exc ELSE "Exception"
         /\ pc' = IF ok THEN "clear" ELSE "dead"
    /\ UNCHANGED <<mainpc, env, folder, audio_queue, captured, accepted, data, video_path,
                   silence, stop_event, overlayVisible, catFile, mark, sessions, loc>>

\* finally: self.silence.clear(); then the pending exception, if any, is
\* re-raised and ends the recognition thread, else the loop goes on.
Clear ==
    /\ At("clear")
    /\ silence' = FALSE
    /\ pc' = IF exc = "none" THEN "loop" ELSE "dead"
    /\ UNCHANGED <<mainpc, env, folder, audio_queue, captured, accepted, data, video_path,
                   stop_event, exc, obs, trace, mark, sessions, loc>>

\* ------------------------------------------------------------ specification
\* Steps of the recognition thread.
RecStep ==
    \/ LoopCheck \/ Get \/ Recognize \/ Match \/ TriggerEnter
    \/ Mute \/ Pick \/ SetFile \/ Show \/ Hold \/ Hide \/ Unmute \/ Clear

Next ==
    \/ Construct \/ Start \/ Interrupt
    \/ AudioCallback \/ FolderChange
    \/ RecStep

Spec == Init /\ [][Next]_vars

\* Specification for liveness: no KeyboardInterrupt, and the recognition
\* thread, a running OS thread, keeps taking its steps while it has one.
FairNext ==
    \/ Construct \/ Start
    \/ AudioCallback \/ FolderChange
    \/ RecStep

FairSpec == Init /\ [][FairNext]_vars /\ WF_vars(RecStep)

\* ------------------------------------------------------------ vocabulary
\* The recognition thread is inside _trigger_censor, past silence.set().
InTrigger ==
    pc \in {"mute", "pick", "setfile", "show", "hold", "hide", "unmute", "clear"}

\* _trigger_censor has set silence at least once and is not running now.
Finished == sessions > 0 /\ ~InTrigger

\* Asset selection and backend calls of the current (or last) trigger.
Session == SubSeq(trace, mark + 1, Len(trace))

\* The backend calls among the entries of s.
Backend(s) == SelectSeq(s, LAMBDA e : e.fn # "pick")

\* Function name and argument of each entry.
FnArgs(s) == [i \in 1..Len(s) |-> <<s[i].fn, s[i].arg>>]

IsPrefix(s, t) == Len(s) <= Len(t) /\ \A i \in 1..Len(s) : s[i] = t[i]

\* The entries of s that raised.
Failed(s) == {<<s[i].fn, s[i].arg>> : i \in {j \in 1..Len(s) : ~s[j].ok}}

MuteOn == <<"set_input_mute", "true">>
MuteOff == <<"set_input_mute", "false">>
ShowItem == <<"set_scene_item_enabled", "true">>
HideItem == <<"set_scene_item_enabled", "false">>
PickNone == <<"pick", "none">>

Count(s, fa) == Cardinality({i \in 1..Len(s) : <<s[i].fn, s[i].arg>> = fa})

\* --------------------------------------------------------------------- C1
\* C1: single-flight. Of any two mute(true) calls, and of any two asset
\* selections, made by the program, a mute(false) call lies between them;
\* and silence is set whenever the thread is inside a trigger, with at most
\* one trigger not yet unmuted.
C1_SingleFlight ==
    /\ \A i, j \in 1..Len(trace) :
         ( /\ i < j
           /\ trace[i].fn = trace[j].fn
           /\ \/ <<trace[i].fn, trace[i].arg>> = MuteOn
                 /\ <<trace[j].fn, trace[j].arg>> = MuteOn
              \/ trace[i].fn = "pick" )
         => \E k \in (i + 1)..(j - 1) : <<trace[k].fn, trace[k].arg>> = MuteOff
    /\ InTrigger => silence
    /\ sessions - Count(trace, MuteOff) \in {0, 1}

\* A second trigger is holding after a first one has run.
C1_Witness == sessions = 2 /\ pc = "hold" /\ Count(trace, MuteOn) = 2

\* --------------------------------------------------------------------- C2
\* C2: whenever silence is set it is eventually cleared, whichever backend
\* call of the trigger or of the cleanup raises.
C2_EventuallyIdle == silence ~> ~silence

\* --------------------------------------------------------------------- C3
\* C3: when a trigger has finished in which the only failure was the asset
\* selection or the set_input_settings call, the overlay is hidden, the mic
\* is unmuted and silence is clear.
C3_RevertGuarantee ==
    ( /\ Finished
      /\ Cardinality(Failed(Session)) = 1
      /\ \E f \in Failed(Session) : f[1] \in {"pick", "set_input_settings"} )
    => (~overlayVisible /\ ~micMuted /\ ~silence)

\* A trigger has finished whose set_input_settings call alone raised.
C3_Witness ==
    /\ Finished
    /\ Cardinality(Failed(Session)) = 1
    /\ \E f \in Failed(Session) : f[1] = "set_input_settings"

\* --------------------------------------------------------------------- C4
\* C4: in every state in which the overlay scene item is visible, the mic
\* is muted; a show call is issued only after the mute(true) call of its
\* trigger returned, and a mute(false) call only after the hide call of its
\* trigger returned.
C4_NestedOrdering ==
    /\ overlayVisible => micMuted
    /\ \A i \in 1..Len(Session) :
         /\ <<Session[i].fn, Session[i].arg>> = ShowItem
            => (i > 1 /\ Session[1] = Call("set_input_mute", "true", TRUE))
         /\ <<Session[i].fn, Session[i].arg>> = MuteOff
            => (i > 1 /\ Session[i - 1] =
                           Call("set_scene_item_enabled", "false", TRUE))

\* The hide call of a cleanup raised and left the overlay visible.
C4_Witness == overlayVisible /\ pc = "dead" /\ HideItem \in Failed(Session)

\* --------------------------------------------------------------------- C5
\* The entries of a trigger that selects file v and in which nothing fails.
FullSession(v) ==
    << Call("set_input_mute", "true", TRUE), Call("pick", v, TRUE),
       Call("set_input_settings", v, TRUE),
       Call("set_scene_item_enabled", "true", TRUE),
       Call("set_scene_item_enabled", "false", TRUE),
       Call("set_input_mute", "false", TRUE) >>

\* C5: while no step of a trigger has failed, its backend calls are a prefix
\* of mute(true), set_input_settings(file), show, hide, mute(false), file
\* being the selected one; when it has finished they are the whole sequence.
C5_CallOrder ==
    (sessions > 0 /\ Failed(Session) = {})
    => \E v \in Files :
         /\ IsPrefix(Session, FullSession(v))
         /\ IsPrefix(Backend(Session), Backend(FullSession(v)))
         /\ Finished => Backend(Session) = Backend(FullSession(v))

\* A trigger has finished without any failure.
C5_Witness == Finished /\ Failed(Session) = {} /\ pc = "loop"

\* --------------------------------------------------------------------- C6
\* C6: a trigger whose initial mute call raised has not set silence and
\* issues no cleanup call.
C6_MuteFailureDrops ==
    (sessions > 0 /\ Session # <<>> /\ ~Session[1].ok)
    => (~silence /\ Len(Session) = 1)

\* --------------------------------------------------------------------- C7
\* C7 as stated: when the asset selection of a finished trigger found no
\* video (and nothing else failed), its backend calls are exactly
\* mute(true), mute(false).
C7_OnlyMuteUnmute ==
    (Finished /\ Failed(Session) = {PickNone})
    => FnArgs(Backend(Session)) = <<MuteOn, MuteOff>>

\* C7 amended: when the asset selection of a trigger found no video, its
\* entries are a prefix of mute(true), failed selection, hide, mute(false):
\* no set_input_settings and no show; and they are that whole sequence once
\* the trigger has finished without a backend call raising.
C7_EmptyFolderCalls ==
    PickNone \in Failed(Session)
    => /\ IsPrefix(FnArgs(Session), <<MuteOn, PickNone, HideItem, MuteOff>>)
       /\ (Finished /\ Failed(Session) = {PickNone})
          => FnArgs(Session) = <<MuteOn, PickNone, HideItem, MuteOff>>

\* A trigger with an empty folder has finished, no backend call raising.
C7_Witness == Finished /\ Failed(Session) = {PickNone}

\* --------------------------------------------------------------------- C8
\* C8: after a trigger in which the asset selection found no video (and
\* nothing else failed), the recognition loop is still running.
C8_LoopSurvivesEmptyFolder ==
    (Finished /\ Failed(Session) = {PickNone}) => pc # "dead"

\* --------------------------------------------------------------------- C9
\* C9: after a trigger in which only cleanup calls (hide, unmute) raised,
\* the unmute call has been attempted, silence is clear and the loop is
\* still running.
C9_CleanupBestEffort ==
    (Finished /\ Failed(Session) # {} /\ Failed(Session) \subseteq {HideItem, MuteOff})
    => (Count(Session, MuteOff) = 1 /\ ~silence /\ pc # "dead")

\* -------------------------------------------------------------------- C10
\* C10: the cleanup (its first call, hide) has been started once for every
\* time silence was set, but for a trigger that has not reached it yet.
C10_CleanupOnce ==
    /\ Count(trace, HideItem) =
         IF pc \in {"mute", "pick", "setfile", "show", "hold", "hide"}
         THEN sessions - 1 ELSE sessions
    /\ sessions > 0 =>
         Count(Session, HideItem) =
           IF pc \in {"mute", "pick", "setfile", "show", "hold", "hide"}
           THEN 0 ELSE 1

\* A trigger whose show call raised has finished, after an earlier trigger.
C10_Witness == Finished /\ sessions = 2 /\ ShowItem \in Failed(Session)

\* -------------------------------------------------------------------- C11
\* C11: a detection from a frame captured during a hold causes no backend
\* call: no trigger caused by such a frame has issued one.
C11_NoDeferredTrigger ==
    (sessions > 0 /\ origins[Len(origins)] \in held) => Backend(Session) = <<>>

\* -------------------------------------------------------------------- C12
\* A capacity as a bounded frame queue would have (the queue of the code is
\* built without maxsize).
QueueCapacity == 2

\* C12: the number of frames in the queue never exceeds the capacity.
C12_QueueBounded == Len(audio_queue) <= QueueCapacity

\* -------------------------------------------------------------------- C13
\* C13: the frames passed to AcceptWaveform are, in order, the first frames
\* captured: frame i is the i-th one accepted, and none is accepted that
\* was not captured; a frame is in the queue, held by the thread, or
\* accepted, and in one place only.
C13_CaptureOrder ==
    /\ Len(accepted) <= captured
    /\ \A i \in 1..Len(accepted) : accepted[i] = i
    /\ LET inhand == IF data = 0 THEN <<>> ELSE <<data>>
       IN  accepted \o inhand \o audio_queue = [i \in 1..captured |-> i]

\* Two frames accepted while a third waits in the queue behind a hold.
C13_Witness == Len(accepted) = 2 /\ audio_queue = <<3>> /\ pc = "hold"

\* -------------------------------------------------------------------- C14
\* C14: every frame put on the queue is eventually passed to the recognizer.
C14_NoAudioLost ==
    \A f \in 1..MaxFrames :
        (f \in Range(audio_queue)) ~> (f \in Range(accepted))

\* -------------------------------------------------------------------- C15
\* A step of the recognition thread that leaves position p.
Leaves(p) == pc = p /\ pc' # p /\ mainpc' = mainpc

\* C15: a frame without utterance boundary, a final result with empty text
\* and a final result without matching token send the thread back to the
\* head of the loop with no backend call and silence, the session count and
\* the backend state unchanged; silence is set only from Idle, for a final
\* result with a matching token.
C15_TriggerOnlyOnMatch ==
    [][ /\ (Leaves("accept") /\ result'.kind = "partial")
           => (pc' = "loop" /\ UNCHANGED <<trace, silence, sessions, obs>>)
        /\ ( Leaves("match")
             /\ (result.text = <<>>
                 \/ \A w \in swear_words : w \notin Range(Split(Lower(result.text)))) )
           => (pc' = "loop" /\ UNCHANGED <<trace, silence, sessions, obs>>)
        /\ (sessions' # sessions \/ (silence' /\ ~silence))
           => ( /\ pc = "trigger" /\ ~silence
                /\ result.kind = "final"
                /\ \E w \in swear_words : w \in Range(Split(Lower(result.text))) )
      ]_vars

\* A final result without matching token has been handled, after a trigger.
C15_Witness ==
    /\ pc = "loop" /\ sessions = 1
    /\ result = [kind |-> "final", text |-> <<"s","h","e","l","l","f","i","s","h">>]

\* -------------------------------------------------------------------- C16
\* C16: when the process has exited after a trigger had shown the overlay
\* (no call of it failing), the hide and unmute calls have been issued and
\* neither the mic is muted nor the overlay visible.
C16_CleanupBeforeExit ==
    (mainpc = "exited" /\ Count(Session, ShowItem) = 1 /\ Failed(Session) = {})
    => /\ Count(Session, HideItem) = 1 /\ Count(Session, MuteOff) = 1
       /\ ~micMuted /\ ~overlayVisible

\* -------------------------------------------------------------------- C17
\* C17: after AcceptWaveform or Result raised for a frame, the recognition
\* loop is still running.
C17_DecodeErrorSkipsFrame == result.kind = "error" => pc # "dead"

\* -------------------------------------------------------------------- C18
\* Characters of the sample texts, and their maximal length.
Alphabet == {"h", "e", "l", "L", "s", " "}
MaxTextLen == 5

SampleTexts == UNION {[1..n -> Alphabet] : n \in 0..MaxTextLen}

\* Lines of custom word files (a set of lines; the empty set: no file).
SwearLists ==
    { {},
      { <<" ","s","h","e","L","l"," ">>, <<" "," ">> },
      { <<"h","e">>, <<"l"," ","l">>, <<"H","E","L","L">> } }

\* Detection alone: a final text and a word set, and the match applied.
DetectInit ==
    /\ mainpc = "listening"
    /\ inputs = {MicName, CatName}
    /\ catInScene = TRUE
    /\ folder = Files
    /\ audio_queue = <<>>
    /\ captured = 1
    /\ accepted = <<1>>
    /\ pc = "match"
    /\ data = 0
    /\ video_path = "none"
    /\ silence = FALSE
    /\ stop_event = FALSE
    /\ exc = "none"
    /\ micMuted = FALSE
    /\ overlayVisible = FALSE
    /\ catFile = "none"
    /\ trace = <<>>
    /\ mark = 0
    /\ sessions = 0
    /\ swear_words \in {LoadSwearWords(l) : l \in SwearLists}
    /\ result \in {[kind |-> "final", text |-> t] : t \in SampleTexts}
    /\ bad = {}
    /\ held = {}
    /\ origins = <<>>

DetectSpec == DetectInit /\ [][Match]_vars

\* Word w stands in text t (lowercased) as a whole token: at some position,
\* with the start of the text or whitespace before it and the end of the
\* text or whitespace after it.
OccursAsToken(w, t) ==
    /\ w # <<>>
    /\ \A k \in 1..Len(w) : ~IsSpace(w[k])
    /\ \E i \in 1..(Len(t) - Len(w) + 1) :
         /\ \A k \in 1..Len(w) : LowerChar(t[i + k - 1]) = w[k]
         /\ i = 1 \/ IsSpace(t[i - 1])
         /\ i + Len(w) > Len(t) \/ IsSpace(t[i + Len(w)])

\* C18: once the match is made, the matched set is the set of words of the
\* word set that stand in the text as a whole whitespace-delimited token,
\* case ignored; and the trigger is called exactly when it is not empty.
C18_ExactToken ==
    pc # "match"
    => /\ bad = {w \in swear_words : OccursAsToken(w, result.text)}
       /\ (pc = "trigger") <=> (bad # {})

\* "shell" has been matched against a word set holding "hell": no match.
C18_Witness ==
    /\ pc = "loop"
    /\ result.text = <<"s","h","e","l","l">>
    /\ <<"h","e","l","l">> \in swear_words
    /\ bad = {}

\* -------------------------------------------------------------------- C19
\* The checks of _prepare_scene_items pass.
SceneReady == MicName \in inputs /\ CatName \in inputs /\ catInScene

\* C19: when a source is missing or the cat source is not in the scene, the
\* main thread never gets past construction, the recognition thread is not
\* started, no frame is captured and no backend call is made.
C19_FailFast ==
    ~SceneReady
    => /\ mainpc \in {"init", "exited"}
       /\ pc = "unstarted"
       /\ captured = 0 /\ audio_queue = <<>>
       /\ trace = <<>> /\ ~micMuted /\ ~overlayVisible

\* Construction has ended the process: the cat source is not in the scene.
C19_Witness ==
    mainpc = "exited" /\ inputs = {MicName, CatName} /\ ~catInScene

\* -------------------------------------------------------------------- C20
\* C20: stop_event is never set, so the recognition loop never ends by its
\* loop test but only by an exception (of the decoder or of a trigger); and
\* while the process lives, a recognition thread that has ended does not
\* keep the capture callback from putting frames.
C20_StopEventNeverSet ==
    /\ ~stop_event
    /\ pc # "done"
    /\ pc = "dead" => (result.kind = "error" \/ exc # "none")
    /\ (mainpc = "listening" /\ pc = "dead" /\ captured < MaxFrames)
       => ENABLED AudioCallback

\* A frame was captured after the recognition thread had ended.
C20_Witness ==
    /\ mainpc = "listening" /\ pc = "dead"
    /\ audio_queue # <<>> /\ Len(accepted) < captured

====
